---------------------------- MODULE Spec2Model ----------------------------
(***************************************************************************)
(* A model of the TeraBox extractor: the HTTP handler of the extract       *)
(* endpoint (src/pages/index.js, lines 105-156) and the extraction         *)
(* pipeline extractTeraBoxInfo with its helpers (src/unnamed/part_000).    *)
(*                                                                         *)
(* Text is modelled as a sequence of string tokens.  URLs are sequences of *)
(* single characters, so that substring search, String.replace and the     *)
(* /s/<token> regular expression are computed character by character.      *)
(* Page text and all produced text are sequences of lexemes (a marker, a   *)
(* punctuation sign, a number literal, a word); the page regular           *)
(* expressions are computed lexeme by lexeme.                              *)
(*                                                                         *)
(* A JavaScript scalar is a record [t, v]: t is its type ("undefined",     *)
(* "null", "num", "str", "object") and v its text (a number's literal, a   *)
(* string's tokens).                                                       *)
(***************************************************************************)
EXTENDS Integers, Sequences, FiniteSets, TLC

VARIABLES
    method,         \* req.method
    url,            \* req.query.url, a JavaScript scalar
    net,            \* what the remote host will answer to the outbound GET
    pc,             \* where the request is in handler / extractTeraBoxInfo
    normalizedUrl,  \* extractTeraBoxInfo: const normalizedUrl
    page,           \* extractTeraBoxInfo: response.data
    fileId,         \* extractTeraBoxInfo: const fileId
    fileInfo,       \* extractTeraBoxInfo: const fileInfo (<<>> or <<record>>)
    shortLink,      \* extractTeraBoxInfo: const shortLink
    result,         \* what extractTeraBoxInfo returned (<<>> or <<record>>)
    thrown,         \* the exception in flight inside extractTeraBoxInfo
    escaped,        \* the exception that reached handler's catch
    res,            \* the HTTP response sent (<<>> or <<record>>)
    trace,          \* history: the stages that ran, in order
    gets,           \* history: the number of axios.get calls issued
    kind            \* history: the error kind of section 7 that ended the pipeline

vars == <<method, url, net, pc, normalizedUrl, page, fileId, fileInfo,
          shortLink, result, thrown, escaped, res, trace, gets, kind>>

-----------------------------------------------------------------------------
(* JavaScript scalars *)

Undefined == [t |-> "undefined", v |-> <<>>]
Null == [t |-> "null", v |-> <<>>]
Num(lit) == [t |-> "num", v |-> <<lit>>]
Str(toks) == [t |-> "str", v |-> toks]

\* ToBoolean(x) is false: undefined, null, "" and 0
Falsy(x) ==
    \/ x.t \in {"undefined", "null"}
    \/ x.t = "str" /\ x.v = <<>>
    \/ x.t = "num" /\ x.v = <<"0">>

\* `${x}` in a template literal
TemplateText(x) ==
    IF x.t \in {"undefined", "null"} THEN <<x.t>> ELSE x.v

-----------------------------------------------------------------------------
(* String operations, on sequences of tokens *)

Min(a, b) == IF a < b THEN a ELSE b

MatchesAt(s, sub, p) ==
    /\ p + Len(sub) - 1 <= Len(s)
    /\ \A k \in 1..Len(sub) : s[p + k - 1] = sub[k]

\* s.indexOf(sub) + 1: the first position where sub occurs in s, 0 if none
IndexOf(s, sub) ==
    LET hits == {p \in 1..(Len(s) - Len(sub) + 1) : MatchesAt(s, sub, p)}
    IN  IF hits = {} THEN 0 ELSE CHOOSE p \in hits : \A q \in hits : p <= q

\* s.includes(sub)
Includes(s, sub) == IndexOf(s, sub) # 0

\* s.replace(sub, rep) with a string pattern: only the FIRST occurrence of
\* sub, wherever it is in s, is replaced
ReplaceFirst(s, sub, rep) ==
    LET p == IndexOf(s, sub)
    IN  IF p = 0 THEN s
        ELSE SubSeq(s, 1, p - 1) \o rep \o SubSeq(s, p + Len(sub), Len(s))

UpperAlphabet ==
    <<"A", "B", "C", "D", "E", "F", "G", "H", "I", "J", "K", "L", "M",
      "N", "O", "P", "Q", "R", "S", "T", "U", "V", "W", "X", "Y", "Z">>

LowerAlphabet ==
    <<"a", "b", "c", "d", "e", "f", "g", "h", "i", "j", "k", "l", "m",
      "n", "o", "p", "q", "r", "s", "t", "u", "v", "w", "x", "y", "z">>

LowerChar(c) ==
    IF \E k \in 1..Len(UpperAlphabet) : UpperAlphabet[k] = c
    THEN LowerAlphabet[CHOOSE k \in 1..Len(UpperAlphabet) : UpperAlphabet[k] = c]
    ELSE c

ToLowerCase(s) == [k \in 1..Len(s) |-> LowerChar(s[k])]

-----------------------------------------------------------------------------
(* URL text, character by character *)

SchemeHttps == <<"h", "t", "t", "p", "s", ":", "/", "/">>
SchemeHttp == <<"h", "t", "t", "p", ":", "/", "/">>
Www == <<"w", "w", "w", ".">>
WwwUpper == <<"W", "W", "W", ".">>
SlashS == <<"/", "s", "/">>

TeraboxCom == <<"t", "e", "r", "a", "b", "o", "x", ".", "c", "o", "m">>
Tera1024Com == <<"1", "0", "2", "4", "t", "e", "r", "a", ".", "c", "o", "m">>
TeraboxappCom ==
    <<"t", "e", "r", "a", "b", "o", "x", "a", "p", "p", ".", "c", "o", "m">>
FunboxCom == <<"4", "f", "u", "n", "b", "o", "x", ".", "c", "o", "m">>
Terabox1024Com ==
    <<"1", "0", "2", "4", "t", "e", "r", "a", "b", "o", "x", ".", "c", "o", "m">>

\* normalizeTeraBoxUrl: const validDomains
validDomains == {TeraboxCom, Tera1024Com, TeraboxappCom, FunboxCom, Terabox1024Com}

\* The characters that end the authority of a URL
AuthorityEnd == {"/", "?", "#"}

SchemeOf(u) ==
    IF MatchesAt(u, SchemeHttps, 1) THEN SchemeHttps
    ELSE IF MatchesAt(u, SchemeHttp, 1) THEN SchemeHttp
    ELSE <<>>

\* The text of s from its first character that is not a slash
RECURSIVE SkipSlashes(_)
SkipSlashes(s) ==
    IF s # <<>> /\ Head(s) = "/" THEN SkipSlashes(Tail(s)) ELSE s

\* new URL(u), for the URL strings of this model: an optional http(s)://
\* scheme, then host characters, then a path, query or fragment; no userinfo
\* and no port.  The constructor throws when there is no scheme (a relative
\* URL without a base) or no host; further slashes after the scheme are
\* skipped; .hostname is the lower-cased text up to the first of / ? #.
ParseURL(u) ==
    LET scheme == SchemeOf(u)
        rest == SkipSlashes(SubSeq(u, Len(scheme) + 1, Len(u)))
        ends == {p \in 1..Len(rest) : rest[p] \in AuthorityEnd}
        stop == IF ends = {} THEN Len(rest) + 1
                ELSE CHOOSE p \in ends : \A q \in ends : p <= q
        host == SubSeq(rest, 1, stop - 1)
    IN  IF scheme = <<>> \/ host = <<>>
        THEN [ok |-> FALSE, hostname |-> <<>>]
        ELSE [ok |-> TRUE, hostname |-> ToLowerCase(host)]

\* normalizeTeraBoxUrl, line 77: urlObj.hostname.replace('www.', '')
StripWww(hostname) == ReplaceFirst(hostname, Www, <<>>)

\* normalizeTeraBoxUrl, line 80: validDomains.some(d => domain.includes(d))
IsValidDomain(domain) == \E d \in validDomains : Includes(domain, d)

\* normalizeTeraBoxUrl(url): the URL unchanged, or null
normalizeTeraBoxUrl(u) ==
    IF Falsy(u) THEN Null
    ELSE LET urlObj == ParseURL(u.v)
         IN  IF ~urlObj.ok THEN Null
             ELSE IF ~IsValidDomain(StripWww(urlObj.hostname)) THEN Null
             ELSE u

-----------------------------------------------------------------------------
(* What a called function did: returned a value or threw *)

Return(x) == [threw |-> FALSE, value |-> x, message |-> <<>>]
Throw(msg) == [threw |-> TRUE, value |-> <<>>, message |-> msg]

\* TypeError of pageContent.match when response.data is not a string
MatchNotAFunction == <<"pageContent.match is not a function">>

-----------------------------------------------------------------------------
(* Identifier Extractor *)

\* The character class [A-Za-z0-9_-]
TokenChars ==
    {"a", "b", "c", "d", "e", "f", "g", "h", "i", "j", "k", "l", "m", "n",
     "o", "p", "q", "r", "s", "t", "u", "v", "w", "x", "y", "z", "A", "B",
     "C", "D", "E", "F", "G", "H", "I", "J", "K", "L", "M", "N", "O", "P",
     "Q", "R", "S", "T", "U", "V", "W", "X", "Y", "Z", "0", "1", "2", "3",
     "4", "5", "6", "7", "8", "9", "_", "-"}

\* The length of the longest run of TokenChars of s that starts at p
RunLength(s, p) ==
    LET stops == {q \in p..Len(s) : s[q] \notin TokenChars}
    IN  IF stops = {} THEN Len(s) - p + 1
        ELSE (CHOOSE q \in stops : \A r \in stops : q <= r) - p

\* url.match(/\/s\/([A-Za-z0-9_-]+)/): group 1 of the leftmost match, <<>>
\* when there is no match
ShareTokenMatch(u) ==
    LET hits == {p \in 1..Len(u) :
                    /\ MatchesAt(u, SlashS, p)
                    /\ p + 3 <= Len(u)
                    /\ u[p + 3] \in TokenChars}
    IN  IF hits = {} THEN <<>>
        ELSE LET p == CHOOSE h \in hits : \A q \in hits : h <= q
             IN  SubSeq(u, p + 3, p + 2 + RunLength(u, p + 3))

FsIdKey == "\"fs_id\":"
ShareIdKey == "\"shareid\":"

\* The number literals of this model's page texts and their values, written
\* in base 1024 with the least significant digit first (<<>> is 0)
DigitsOf(lit) ==
    CASE lit = "0" -> <<>>
      [] lit = "1" -> <<1>>
      [] lit = "2" -> <<2>>
      [] lit = "3" -> <<3>>
      [] lit = "111" -> <<111>>
      [] lit = "777" -> <<777>>
      [] lit = "999" -> <<999>>
      [] lit = "1023" -> <<1023>>
      [] lit = "1024" -> <<0, 1>>
      [] lit = "1536" -> <<512, 1>>
      [] lit = "12345" -> <<57, 12>>
      [] lit = "1048575" -> <<1023, 1023>>
      [] lit = "1048576" -> <<0, 0, 1>>
      [] lit = "1073741824" -> <<0, 0, 0, 1>>
      [] lit = "1099511627776" -> <<0, 0, 0, 0, 1>>
      [] lit = "1125899906842624" -> <<0, 0, 0, 0, 0, 1>>
      [] lit = "1152921504606846976" -> <<0, 0, 0, 0, 0, 0, 1>>

NumberLiterals ==
    {"0", "1", "2", "3", "111", "777", "999", "1023", "1024", "1536", "12345",
     "1048575", "1048576", "1073741824", "1099511627776", "1125899906842624",
     "1152921504606846976"}

\* A lexeme matched by \d+
IsDigits(tok) == tok \in NumberLiterals

\* pageContent.match(/"<key>":(\d+)/): group 1 of the leftmost match, <<>>
\* when there is no match
FieldMatch(toks, key) ==
    LET hits == {p \in 1..(Len(toks) - 1) :
                    toks[p] = key /\ IsDigits(toks[p + 1])}
    IN  IF hits = {} THEN <<>>
        ELSE LET p == CHOOSE h \in hits : \A q \in hits : h <= q
             IN  <<toks[p + 1]>>

extractFileId_PageFirst(u, pageContent) ==
    IF pageContent.t = "str" /\ FieldMatch(pageContent.v, FsIdKey) # <<>>
    THEN Return(Str(FieldMatch(pageContent.v, FsIdKey)))
    ELSE IF ShareTokenMatch(u) # <<>> THEN Return(Str(ShareTokenMatch(u)))
    ELSE Return(Null)

\* extractFileId(url, pageContent): the identifier, or null
extractFileId(u, pageContent) ==
    LET match == IF Includes(u, SlashS) THEN ShareTokenMatch(u) ELSE <<>>
    IN  IF match # <<>> THEN Return(Str(match))
        ELSE IF pageContent.t # "str" THEN Throw(MatchNotAFunction)
        ELSE LET fidMatch == FieldMatch(pageContent.v, FsIdKey)
                 shareidMatch == FieldMatch(pageContent.v, ShareIdKey)
             IN  IF fidMatch # <<>> THEN Return(Str(fidMatch))
                 ELSE IF shareidMatch # <<>> THEN Return(Str(shareidMatch))
                 ELSE Return(Null)

\* generateShortLink(originalUrl, fileId)
generateShortLink(originalUrl, id) ==
    <<"https://1024terabox.com/s/">> \o TemplateText(id)

-----------------------------------------------------------------------------
(* Size formatting *)

Kilo == 1024

\* formatSize: const sizes
sizes == <<"Bytes", "KB", "MB", "GB", "TB">>

\* sizes[i]: undefined beyond the end of the array, "undefined" once
\* concatenated to a string
SizeUnit(i) == IF i + 1 <= Len(sizes) THEN sizes[i + 1] ELSE "undefined"

\* floor(200 * (b mod 1024^k) / 1024^k) for the number b of digits d
RECURSIVE Carry(_, _)
Carry(d, k) ==
    IF k = 0 THEN 0 ELSE (200 * d[k] + Carry(d, k - 1)) \div Kilo

\* (bytes / Math.pow(1024, i)).toFixed(2), in hundredths: the division by a
\* power of two is exact, and toFixed rounds the exact value half up
Hundredths(d, i) == (200 * d[i + 1] + Carry(d, i) + 1) \div 2

\* parseFloat(text of h hundredths) as text: trailing zeros are dropped
NumberText(h) ==
    IF h % 100 = 0 THEN ToString(h \div 100)
    ELSE IF h % 10 = 0
         THEN ToString(h \div 100) \o "." \o ToString((h % 100) \div 10)
         ELSE ToString(h \div 100) \o "." \o ToString((h % 100) \div 10)
                  \o ToString(h % 10)

\* Math.floor(Math.log(bytes) / Math.log(1024)) for bytes >= 1: the index of
\* the leading base-1024 digit (the floating-point quotient has this floor
\* for every number literal of this model)
LogIndex(d) == Len(d) - 1

\* formatSize(bytes), bytes a number literal: the number, a space, the unit
formatSize(bytes) ==
    IF bytes = "0" THEN <<"0", " ", "Bytes">>
    ELSE LET d == DigitsOf(bytes)
             i == LogIndex(d)
         IN  <<NumberText(Hundredths(d, i)), " ", SizeUnit(i)>>

-----------------------------------------------------------------------------
(* JSON text of the embedded page data *)

\* One record of file_list, or a null entry
FileRec(fn, sz, id, cat) ==
    [t |-> "object", server_filename |-> fn, size |-> sz, fs_id |-> id,
     category |-> cat]

NullRec ==
    [t |-> "null", server_filename |-> Undefined, size |-> Undefined,
     fs_id |-> Undefined, category |-> Undefined]

ArrayOf(items) == [t |-> "array", items |-> items]
NoArray(type) == [t |-> type, items |-> <<>>]

\* The decoded page data, or a JSON null
YunData(fl, server, sign, timestamp) ==
    [t |-> "object", file_list |-> fl, server |-> server, sign |-> sign,
     timestamp |-> timestamp]

NullData ==
    [t |-> "null", file_list |-> NoArray("undefined"), server |-> Undefined,
     sign |-> Undefined, timestamp |-> Undefined]

Quote == "\""

JsonScalar(x) ==
    IF x.t = "str" THEN <<Quote>> \o x.v \o <<Quote>>
    ELSE IF x.t = "null" THEN <<"null">>
    ELSE x.v

\* "key":value, nothing for an absent (undefined) member
Member(key, x) == IF x.t = "undefined" THEN <<>> ELSE <<key>> \o JsonScalar(x)

\* The non-empty parts, separated by commas
RECURSIVE JoinComma(_)
JoinComma(parts) ==
    IF parts = <<>> THEN <<>>
    ELSE LET rest == JoinComma(Tail(parts))
         IN  IF Head(parts) = <<>> THEN rest
             ELSE IF rest = <<>> THEN Head(parts)
             ELSE Head(parts) \o <<",">> \o rest

StringifyRec(r) ==
    IF r.t = "null" THEN <<"null">>
    ELSE <<"{">> \o JoinComma(<<Member("\"server_filename\":", r.server_filename),
                                Member("\"size\":", r.size),
                                Member(FsIdKey, r.fs_id),
                                Member("\"category\":", r.category)>>)
              \o <<"}">>

StringifyList(fl) ==
    IF fl.t = "undefined" THEN <<>>
    ELSE IF fl.t = "null" THEN <<"\"file_list\":", "null">>
    ELSE <<"\"file_list\":", "[">>
             \o JoinComma([k \in 1..Len(fl.items) |-> StringifyRec(fl.items[k])])
             \o <<"]">>

\* The JSON text of a page data value
Stringify(y) ==
    IF y.t = "null" THEN <<"null">>
    ELSE <<"{">> \o JoinComma(<<StringifyList(y.file_list),
                                Member("\"server\":", y.server),
                                Member("\"sign\":", y.sign),
                                Member("\"timestamp\":", y.timestamp)>>)
              \o <<"}">>

-----------------------------------------------------------------------------
(* Link Synthesizer *)

\* Math.floor(Math.random() * n), the k-th call of a request whose random
\* stream is seed: an arbitrary integer below every n the code uses
MathRandomFloor(seed, k) == ToString(seed + k)

\* yunData.x || ''
OrEmpty(x) == IF Falsy(x) THEN Str(<<>>) ELSE x

\* createDirectLink(fileInfo, server, sign, timestamp)
createDirectLink(info, server, sign, timestamp, seed) ==
    <<"https://d.1024tera.com/file/">> \o TemplateText(info.fs_id)
        \o <<"?fid=">> \o TemplateText(info.fs_id)
        \o <<"-", MathRandomFloor(seed, 1), "-", MathRandomFloor(seed, 2)>>
        \o <<"&dstime=">> \o TemplateText(timestamp)
        \o <<"&rt=sh&sign=">> \o TemplateText(sign)
        \o <<"&expires=8h&chkv=0&chkbd=0&chkpc=&dp-logid=", MathRandomFloor(seed, 3),
             "&dp-callid=0&r=", MathRandomFloor(seed, 4), "&sh=1&region=jp">>

\* generateThumbnailUrls: the size=... parameter written for each key
ThumbnailSizes ==
    ("140x90" :> "c140_u90") @@ ("360x270" :> "c360_u270")
        @@ ("60x60" :> "c60_u60") @@ ("850x580" :> "c850_u580")

ThumbnailMap(info, sign, timestamp, seed, isVideo) ==
    LET baseThumbUrl ==
            <<"https://data.1024tera.com/thumbnail/">> \o TemplateText(info.fs_id)
        randomParams ==
            <<"?fid=">> \o TemplateText(info.fs_id)
                \o <<"-", MathRandomFloor(seed, 5), "-", MathRandomFloor(seed, 6)>>
                \o <<"&time=">> \o TemplateText(timestamp)
                \o <<"&rt=sh&sign=">> \o TemplateText(sign)
                \o <<"&expires=8h&chkv=0&chkbd=0&chkpc=&dp-logid=",
                     MathRandomFloor(seed, 7), "&dp-callid=0">>
    IN  [k \in DOMAIN ThumbnailSizes |->
            baseThumbUrl \o randomParams
                \o <<"&size=", ThumbnailSizes[k], "&quality=100&vuk=-",
                     "&ft=", IF isVideo THEN "video" ELSE "image">>]

generateThumbnailUrls_VideoOnly(info, server, sign, timestamp, seed) ==
    IF info.category # Num("1") THEN [isNull |-> TRUE, map |-> <<>>]
    ELSE [isNull |-> FALSE, map |-> ThumbnailMap(info, sign, timestamp, seed, TRUE)]

\* generateThumbnailUrls(fileInfo, server, sign, timestamp): null, or the map
\* from size key to URL
generateThumbnailUrls(info, server, sign, timestamp, seed) ==
    LET isVideo == info.category = Num("1")
        isImage == info.category = Num("3")
    IN  IF ~isVideo /\ ~isImage THEN [isNull |-> TRUE, map |-> <<>>]
        ELSE [isNull |-> FALSE,
              map |-> ThumbnailMap(info, sign, timestamp, seed, isVideo)]

-----------------------------------------------------------------------------
(* The page data values of this model *)

MaxFiles == 2
MaxHostChunks == 3
MaxSeed == 1

Movie == Str(<<"movie.mp4">>)
OneGB == Num("1073741824")

Filenames == {Undefined, Str(<<>>), Movie, Str(<<"a", ";", "b.mp4">>)}

SizeValues ==
    {Undefined} \cup
    {Num(l) : l \in {"0", "1", "1023", "1024", "1536", "1048575", "1048576",
                     "1073741824", "1099511627776", "1125899906842624",
                     "1152921504606846976"}}

FsIds == {Undefined, Num("12345")}

Categories == {Undefined, Num("1"), Num("2"), Num("3"), Str(<<"1">>)}

FileRecs ==
    {FileRec(Movie, sz, Num("12345"), Num("1")) : sz \in SizeValues}
        \cup {FileRec(fn, OneGB, id, cat) :
                  fn \in Filenames, id \in FsIds, cat \in Categories}
        \cup {NullRec}

\* The records of the lists of more than one file
ListRecs ==
    {FileRec(Movie, OneGB, Num("12345"), Num("1")),
     FileRec(Undefined, Undefined, Undefined, Num("2")),
     NullRec}

RECURSIVE SeqsOf(_, _)
SeqsOf(S, n) ==
    IF n = 0 THEN {<<>>}
    ELSE {<<x>> \o rest : x \in S, rest \in SeqsOf(S, n - 1)}

FileLists ==
    {NoArray("undefined"), NoArray("null")}
        \cup {ArrayOf(<<r>>) : r \in FileRecs}
        \cup {ArrayOf(l) : l \in UNION {SeqsOf(ListRecs, n) : n \in 0..MaxFiles}}

Contexts ==
    {[server |-> Str(<<"s1">>), sign |-> Str(<<"xyz">>), timestamp |-> Str(<<"111">>)],
     [server |-> Undefined, sign |-> Undefined, timestamp |-> Undefined],
     [server |-> Str(<<>>), sign |-> Str(<<>>), timestamp |-> Num("111")]}

JsonValues ==
    {YunData(fl, c.server, c.sign, c.timestamp) : fl \in FileLists, c \in Contexts}
        \cup {NullData}

\* JSON.parse(text): the value whose JSON text this is; throws when the text
\* is the JSON text of no value.  JsonTexts pairs every value with its text.
JsonTexts == {[text |-> Stringify(y), value |-> y] : y \in JsonValues}

JSONparse(toks) ==
    IF \E j \in JsonTexts : j.text = toks
    THEN [ok |-> TRUE, value |-> (CHOOSE j \in JsonTexts : j.text = toks).value]
    ELSE [ok |-> FALSE, value |-> NullData]

-----------------------------------------------------------------------------
(* Page Data Parser *)

YunMarker == "window.yunData = "
Semicolon == ";"
Newline == "\n"

\* pageContent.match(/window\.yunData = (.*?);/): the leftmost marker that a
\* semicolon follows on the same line; group 1 is the text up to the first
\* such semicolon
YunDataMatch(toks) ==
    LET firstSemi(p) ==
            LET semis == {q \in (p + 1)..Len(toks) : toks[q] = Semicolon}
            IN  IF semis = {} THEN 0
                ELSE CHOOSE q \in semis : \A r \in semis : q <= r
        hits == {p \in 1..Len(toks) :
                    /\ toks[p] = YunMarker
                    /\ firstSemi(p) # 0
                    /\ \A k \in (p + 1)..(firstSemi(p) - 1) : toks[k] # Newline}
    IN  IF hits = {} THEN [found |-> FALSE, capture |-> <<>>]
        ELSE LET p == CHOOSE h \in hits : \A q \in hits : h <= q
             IN  [found |-> TRUE, capture |-> SubSeq(toks, p + 1, firstSemi(p) - 1)]

\* fileInfo.size || 0, as a number literal
SizeLiteral(x) == IF Falsy(x) THEN "0" ELSE x.v[1]

\* extractFileInfoFromPage, lines 137-156: the decoded data to the file info.
\* A TypeError (reading a member of null) is caught at line 157: null.
FileInfoOf(yunData, seed) ==
    IF yunData.t # "object" THEN <<>>
    ELSE LET fileList == IF yunData.file_list.t = "array"
                         THEN yunData.file_list.items ELSE <<>>
         IN  IF Len(fileList) = 0 THEN <<>>
             ELSE LET info == fileList[1]
                      server == OrEmpty(yunData.server)
                      sign == OrEmpty(yunData.sign)
                      timestamp == OrEmpty(yunData.timestamp)
                  IN  IF info.t # "object" THEN <<>>
                      ELSE <<[title |-> IF Falsy(info.server_filename)
                                        THEN <<"Unknown">>
                                        ELSE info.server_filename.v,
                              size |-> formatSize(SizeLiteral(info.size)),
                              directLink |->
                                  createDirectLink(info, server, sign, timestamp, seed),
                              thumbnails |->
                                  generateThumbnailUrls(info, server, sign,
                                                        timestamp, seed)]>>

\* extractFileInfoFromPage without the try/catch of lines 132-160
extractFileInfoFromPage_NoTry(pageContent, seed) ==
    IF pageContent.t # "str" THEN Throw(MatchNotAFunction)
    ELSE LET dataMatch == YunDataMatch(pageContent.v)
         IN  IF ~dataMatch.found \/ dataMatch.capture = <<>> THEN Return(<<>>)
             ELSE LET parsed == JSONparse(dataMatch.capture)
                  IN  IF ~parsed.ok THEN Throw(<<"Unexpected token in JSON">>)
                      ELSE Return(FileInfoOf(parsed.value, seed))

\* extractFileInfoFromPage(pageContent): <<>> is null
extractFileInfoFromPage(pageContent, seed) ==
    IF pageContent.t # "str" THEN Throw(MatchNotAFunction)
    ELSE LET dataMatch == YunDataMatch(pageContent.v)
         IN  IF ~dataMatch.found \/ dataMatch.capture = <<>> THEN Return(<<>>)
             ELSE LET parsed == JSONparse(dataMatch.capture)
                  IN  IF ~parsed.ok THEN Return(<<>>)
                      ELSE Return(FileInfoOf(parsed.value, seed))

-----------------------------------------------------------------------------
(* Response Formatter and status strings *)

\* The prefix of every failure status (a cross mark, then "Error: ")
ErrorPrefix == "Error: "

\* `Error: ${message}`
ErrorStatus(message) == <<ErrorPrefix>> \o message

\* The success marker searched for by handler and by the browser form
SuccessMarker == <<"Success">>

\* The status of formatResponse (a check mark, then "Success")
SuccessStatus == <<"OK ">> \o SuccessMarker

EmptyMap == <<>>

\* formatResponse without the short link
formatResponse_NoShortLink(info, link) ==
    [status |-> SuccessStatus,
     info |-> <<[title |-> info.title,
                 size |-> info.size,
                 directLink |-> info.directLink,
                 thumbnails |-> IF info.thumbnails.isNull THEN EmptyMap
                                ELSE info.thumbnails.map]>>]

\* formatResponse(fileInfo, shortLink)
formatResponse(info, link) ==
    [status |-> SuccessStatus,
     info |-> <<[title |-> info.title,
                 size |-> info.size,
                 directLink |-> info.directLink,
                 thumbnails |-> IF info.thumbnails.isNull THEN EmptyMap
                                ELSE info.thumbnails.map]>>,
     shortLink |-> link]

Failure(message) == [status |-> ErrorStatus(message)]

-----------------------------------------------------------------------------
(* The requests and the remote answers of this model *)

Methods == {"GET", "HEAD", "POST", "OPTIONS"}

Terabo == <<"t", "e", "r", "a", "b", "o">>
XCom == <<"x", ".", "c", "o", "m">>
EvilCom == <<"e", "v", "i", "l", ".", "c", "o", "m">>
SharePath == <<"/", "s", "/", "1", "A", "b", "c", "D", "e", "f", "G", "h">>
SharingLink == <<"/", "s", "h", "a", "r", "i", "n", "g", "/", "l", "i", "n", "k">>
TwoShares == <<"/", "s", "/", "?", "/", "s", "/", "a", "-", "b", "_", "9", "!", "x">>
QuerySurl == <<"?", "s", "u", "r", "l", "=", "a", "b", "c">>

GoodUrl == SchemeHttps \o TeraboxCom \o SharePath
NoTokenUrl == SchemeHttps \o Www \o TeraboxCom \o SharingLink
BadUrl == SchemeHttps \o EvilCom \o SharePath

\* Hosts: up to MaxHostChunks of these pieces, one after the other
HostChunks == {Www, TeraboxCom, Terabo, XCom, EvilCom}

Hosts == UNION {SeqsOf(HostChunks, n) : n \in 1..MaxHostChunks}

RECURSIVE Flatten(_)
Flatten(ss) == IF ss = <<>> THEN <<>> ELSE Head(ss) \o Flatten(Tail(ss))

CandidateUrls ==
    {scheme \o Flatten(h) \o rest :
        scheme \in {SchemeHttps, <<>>}, h \in Hosts, rest \in {<<>>, SharePath}}
        \cup {SchemeHttp \o WwwUpper \o TeraboxCom \o SharePath,
              SchemeHttps \o WwwUpper \o EvilCom,
              SchemeHttps \o SharePath,
              SchemeHttps}

IdUrls ==
    {SchemeHttps \o TeraboxCom \o rest :
        rest \in {SharePath, SlashS, SharingLink, TwoShares, QuerySurl,
                  SharePath \o SlashS \o Terabo}}

TextPage(toks) == [kind |-> "text", data |-> Str(toks), message |-> <<>>]
NonTextBody == [kind |-> "object", data |-> [t |-> "object", v |-> <<>>], message |-> <<>>]
FetchError(msg) == [kind |-> "error", data |-> Undefined, message |-> msg]

\* error.message of the rejections of axios.get
ErrorMessages ==
    {<<"timeout of 10000ms exceeded">>,
     <<"Request failed with status code 404">>,
     <<"getaddrinfo ENOTFOUND">>,
     <<"Hostname/IP does not match certificate's altnames: DNS:", "Success",
       ".example.net">>,
     <<>>}

WellFormed(y) == <<YunMarker>> \o Stringify(y) \o <<Semicolon>>

ScenarioData ==
    YunData(ArrayOf(<<FileRec(Movie, OneGB, Num("12345"), Num("1"))>>),
            Str(<<"s1">>), Str(<<"xyz">>), Str(<<"111">>))

NoFsIdData ==
    YunData(ArrayOf(<<FileRec(Movie, OneGB, Undefined, Num("2"))>>),
            Str(<<"s1">>), Str(<<"xyz">>), Str(<<"111">>))

Malformed ==
    {<<YunMarker, Semicolon>>,
     <<YunMarker, "{", Semicolon>>,
     <<YunMarker>> \o Stringify(ScenarioData),
     <<YunMarker, Newline>> \o Stringify(ScenarioData) \o <<Semicolon>>,
     <<YunMarker, "{", Newline>> \o WellFormed(ScenarioData),
     <<"window.otherData = ">> \o Stringify(ScenarioData) \o <<Semicolon>>}

Bodies == {<<>>} \cup {WellFormed(y) : y \in JsonValues} \cup Malformed

IdPrefixes ==
    {<<>>,
     <<FsIdKey, "999">>,
     <<ShareIdKey, "777">>,
     <<ShareIdKey, "777", " ", FsIdKey, "999">>,
     <<FsIdKey, "abc", ShareIdKey, "777">>,
     <<ShareIdKey, FsIdKey>>}

Html(toks) == <<"<html>">> \o toks \o <<"</html>">>

ScenarioPage == TextPage(Html(WellFormed(ScenarioData)))

Request(m, u, n) == [method |-> m, url |-> u, net |-> n]

\* Every method, with and without the url parameter
MethodRequests ==
    {Request(m, u, ScenarioPage) :
        m \in Methods, u \in {Undefined, Str(<<>>), Str(GoodUrl), Str(BadUrl)}}

\* Many URL strings
NormalizerRequests == {Request("GET", Str(u), ScenarioPage) : u \in CandidateUrls}

\* URLs with and without a share token, pages with and without identifiers
IdentifierRequests ==
    {Request("GET", Str(u), TextPage(Html(pre \o body))) :
        u \in IdUrls, pre \in IdPrefixes,
        body \in {<<>>, WellFormed(ScenarioData), WellFormed(NoFsIdData)}}

\* Every answer of the remote host
PageRequests ==
    {Request("GET", Str(u), n) :
        u \in {GoodUrl, NoTokenUrl},
        n \in {TextPage(Html(b)) : b \in Bodies}
                 \cup {FetchError(m) : m \in ErrorMessages}
                 \cup {NonTextBody}}

Requests ==
    MethodRequests \cup NormalizerRequests \cup IdentifierRequests \cup PageRequests

-----------------------------------------------------------------------------
(* The HTTP handler and the pipeline *)

NoResponse == [sent |-> FALSE, status |-> 0, headers |-> {}, body |-> <<>>]

Init ==
    /\ \E r \in Requests :
          /\ method = r.method
          /\ url = r.url
          /\ net = r.net
    /\ pc = "cors"
    /\ normalizedUrl = Undefined
    /\ page = Undefined
    /\ fileId = Undefined
    /\ fileInfo = <<>>
    /\ shortLink = <<>>
    /\ result = <<>>
    /\ thrown = <<>>
    /\ escaped = <<>>
    /\ res = NoResponse
    /\ trace = <<>>
    /\ gets = 0
    /\ kind = "none"

\* res.status(code).json(body)
Send(code, body) ==
    [sent |-> TRUE, status |-> code,
     headers |-> res.headers \cup {<<"Content-Type", "application/json">>},
     body |-> <<body>>]

\* cors({methods: ['GET', 'HEAD'], origin: '*'}) answers a preflight
\* (OPTIONS) request itself and does not call next
IsPreflight(m) == m = "OPTIONS"

\* handler, line 128: await runMiddleware(req, res, cors)
RunCors ==
    /\ pc = "cors"
    /\ IF IsPreflight(method)
       THEN /\ res' = [sent |-> TRUE, status |-> 204,
                       headers |-> {<<"Access-Control-Allow-Origin", "*">>,
                                    <<"Access-Control-Allow-Methods", "GET,HEAD">>,
                                    <<"Content-Length", "0">>},
                       body |-> <<>>]
            /\ pc' = "done"
       ELSE /\ res' = [res EXCEPT !.headers = {<<"Access-Control-Allow-Origin", "*">>}]
            /\ pc' = "handler"
    /\ UNCHANGED <<method, url, net, normalizedUrl, page, fileId, fileInfo,
                   shortLink, result, thrown, escaped, trace, gets, kind>>

\* The method check taken from the methods the CORS middleware lists
MethodNotAllowed_HeadAllowed(m) == m \notin {"GET", "HEAD"}

\* handler, line 131
MethodNotAllowed(m) == m # "GET"

\* The url check as url === undefined
UrlMissing_UndefinedOnly(u) == u.t = "undefined"

\* handler, line 140
UrlMissing(u) == Falsy(u)

\* handler, lines 130-146: the method and url checks, then the call of
\* extractTeraBoxInfo
Handler ==
    /\ pc = "handler"
    /\ IF MethodNotAllowed(method)
       THEN /\ res' = [Send(405, Failure(<<"Method not allowed">>))
                          EXCEPT !.headers = @ \cup {<<"Allow", "GET">>}]
            /\ pc' = "done"
       ELSE IF UrlMissing(url)
       THEN /\ res' = Send(400, Failure(<<"Missing URL parameter">>))
            /\ pc' = "done"
       ELSE /\ res' = res
            /\ pc' = "normalize"
    /\ UNCHANGED <<method, url, net, normalizedUrl, page, fileId, fileInfo,
                   shortLink, result, thrown, escaped, trace, gets, kind>>

\* Lines 12-15 without the return at line 14
Normalize_NoReturn ==
    /\ pc = "normalize"
    /\ trace' = Append(trace, "normalize")
    /\ LET n == normalizeTeraBoxUrl(url)
       IN  IF Falsy(n)
           THEN /\ result' = <<Failure(<<"Invalid TeraBox URL">>)>>
                /\ kind' = "InvalidUrl"
                /\ normalizedUrl' = Str(url.v)
           ELSE /\ normalizedUrl' = n
                /\ UNCHANGED <<result, kind>>
    /\ pc' = "fetch"
    /\ UNCHANGED <<method, url, net, page, fileId, fileInfo, shortLink, thrown,
                   escaped, res, gets>>

\* extractTeraBoxInfo, lines 12-15
Normalize ==
    /\ pc = "normalize"
    /\ trace' = Append(trace, "normalize")
    /\ LET n == normalizeTeraBoxUrl(url)
       IN  IF Falsy(n)
           THEN /\ result' = <<Failure(<<"Invalid TeraBox URL">>)>>
                /\ kind' = "InvalidUrl"
                /\ pc' = "respond"
                /\ UNCHANGED normalizedUrl
           ELSE /\ normalizedUrl' = n
                /\ pc' = "fetch"
                /\ UNCHANGED <<result, kind>>
    /\ UNCHANGED <<method, url, net, page, fileId, fileInfo, shortLink, thrown,
                   escaped, res, gets>>

\* extractTeraBoxInfo, lines 18-27: axios.get is called
IssueGet ==
    /\ pc = "fetch"
    /\ trace' = Append(trace, "fetch")
    /\ gets' = gets + 1
    /\ pc' = "awaitFetch"
    /\ UNCHANGED <<method, url, net, normalizedUrl, page, fileId, fileInfo,
                   shortLink, result, thrown, escaped, res, kind>>

\* extractTeraBoxInfo, line 18: the promise of axios.get settles
FetchSettled ==
    /\ pc = "awaitFetch"
    /\ IF net.kind = "error"
       THEN /\ thrown' = <<net.message>>
            /\ kind' = "FetchFailed"
            /\ pc' = "catch"
            /\ UNCHANGED page
       ELSE /\ page' = net.data
            /\ pc' = "load"
            /\ UNCHANGED <<thrown, kind>>
    /\ UNCHANGED <<method, url, net, normalizedUrl, fileId, fileInfo, shortLink,
                   result, escaped, res, trace, gets>>

\* extractTeraBoxInfo, line 30: cheerio.load(response.data); given something
\* that is not a string it may throw or go on
LoadHtml ==
    /\ pc = "load"
    /\ \/ /\ pc' = "extractId"
          /\ UNCHANGED <<thrown, kind>>
       \/ /\ page.t # "str"
          /\ thrown' = <<<<"cheerio.load() expects a string">>>>
          /\ kind' = "InternalError"
          /\ pc' = "catch"
    /\ UNCHANGED <<method, url, net, normalizedUrl, page, fileId, fileInfo,
                   shortLink, result, escaped, res, trace, gets>>

\* extractTeraBoxInfo, lines 33-36
ExtractId ==
    /\ pc = "extractId"
    /\ trace' = Append(trace, "extractId")
    /\ LET r == extractFileId(normalizedUrl.v, page)
       IN  IF r.threw
           THEN /\ thrown' = <<r.message>>
                /\ kind' = "InternalError"
                /\ pc' = "catch"
                /\ UNCHANGED <<fileId, result>>
           ELSE IF Falsy(r.value)
           THEN /\ result' = <<Failure(<<"Could not extract file ID">>)>>
                /\ kind' = "IdentifierNotFound"
                /\ pc' = "respond"
                /\ UNCHANGED <<fileId, thrown>>
           ELSE /\ fileId' = r.value
                /\ pc' = "parse"
                /\ UNCHANGED <<result, thrown, kind>>
    /\ UNCHANGED <<method, url, net, normalizedUrl, page, fileInfo, shortLink,
                   escaped, res, gets>>

\* extractTeraBoxInfo, lines 40-42: what is returned for a null file info,
\* <<>> when the pipeline goes on
FileInfoFailure(r) ==
    IF r.value = <<>> THEN <<Failure(<<"Could not extract file info">>)>> ELSE <<>>

\* extractTeraBoxInfo, lines 39-42
ParsePage ==
    /\ pc = "parse"
    /\ trace' = Append(trace, "parse")
    /\ \E seed \in 0..MaxSeed :
          LET r == extractFileInfoFromPage(page, seed)
          IN  IF r.threw
              THEN /\ thrown' = <<r.message>>
                   /\ kind' = "InternalError"
                   /\ pc' = "catch"
                   /\ UNCHANGED <<fileInfo, result>>
              ELSE IF FileInfoFailure(r) # <<>>
              THEN /\ result' = FileInfoFailure(r)
                   /\ kind' = "FileInfoNotFound"
                   /\ pc' = "respond"
                   /\ UNCHANGED <<fileInfo, thrown>>
              ELSE /\ fileInfo' = r.value
                   /\ pc' = "shortLink"
                   /\ UNCHANGED <<result, thrown, kind>>
    /\ UNCHANGED <<method, url, net, normalizedUrl, page, fileId, shortLink,
                   escaped, res, gets>>

\* extractTeraBoxInfo, line 45
ShortLink ==
    /\ pc = "shortLink"
    /\ trace' = Append(trace, "shortLink")
    /\ shortLink' = generateShortLink(normalizedUrl, fileId)
    /\ pc' = "format"
    /\ UNCHANGED <<method, url, net, normalizedUrl, page, fileId, fileInfo,
                   result, thrown, escaped, res, gets, kind>>

\* extractTeraBoxInfo, lines 48-49
Format ==
    /\ pc = "format"
    /\ trace' = Append(trace, "format")
    /\ result' = <<formatResponse(fileInfo[1], shortLink)>>
    /\ kind' = "Success"
    /\ pc' = "respond"
    /\ UNCHANGED <<method, url, net, normalizedUrl, page, fileId, fileInfo,
                   shortLink, thrown, escaped, res, gets>>

\* error.message || fallback
MessageOr(message, fallback) == IF message = <<>> THEN fallback ELSE message

\* extractTeraBoxInfo, lines 50-55
Catch ==
    /\ pc = "catch"
    /\ result' = <<Failure(MessageOr(thrown[1], <<"Failed to extract information">>))>>
    /\ thrown' = <<>>
    /\ pc' = "respond"
    /\ UNCHANGED <<method, url, net, normalizedUrl, page, fileId, fileInfo,
                   shortLink, escaped, res, trace, gets, kind>>

\* handler, line 149: result.status.includes('Success') ? 200 : 400
StatusCode(status) == IF Includes(status, SuccessMarker) THEN 200 ELSE 400

\* handler, lines 146-155: the result is sent; an exception of the awaited
\* call is answered with 500
Respond ==
    /\ pc = "respond"
    /\ IF escaped # <<>>
       THEN res' = Send(500, Failure(MessageOr(escaped[1], <<"Internal server error">>)))
       ELSE res' = Send(StatusCode(result[1].status), result[1])
    /\ pc' = "done"
    /\ UNCHANGED <<method, url, net, normalizedUrl, page, fileId, fileInfo,
                   shortLink, result, thrown, escaped, trace, gets, kind>>

Next ==
    \/ RunCors
    \/ Handler
    \/ Normalize
    \/ IssueGet
    \/ FetchSettled
    \/ LoadHtml
    \/ ExtractId
    \/ ParsePage
    \/ ShortLink
    \/ Format
    \/ Catch
    \/ Respond

Spec == Init /\ [][Next]_vars

-----------------------------------------------------------------------------
(* Properties *)

Done == pc = "done"

\* The request is a GET that carries a url parameter
GetWithUrl == method = "GET" /\ ~Falsy(url)

\* The failure shape: only a status string
IsFailureShape(r) == DOMAIN r = {"status"} /\ r.status # <<>>

\* The success shape: the success status, one complete info record and the
\* short link
IsSuccessShape(r) ==
    /\ DOMAIN r = {"status", "info", "shortLink"}
    /\ r.status = SuccessStatus
    /\ Len(r.info) = 1
    /\ DOMAIN r.info[1] = {"title", "size", "directLink", "thumbnails"}
    /\ r.info[1].title # <<>>
    /\ r.info[1].size # <<>>
    /\ r.info[1].directLink # <<>>
    /\ r.shortLink # <<>>

\* The error kinds of the pipeline that the spec calls recognized
RecognizedFailures ==
    {"InvalidUrl", "FetchFailed", "IdentifierNotFound", "FileInfoNotFound"}

\* C1: for a GET request with a url parameter the status code is fixed by the
\* outcome of the pipeline: 200 exactly for the success shape, 400 for every
\* recognized extraction failure (a failed fetch with any error message
\* included), 500 for an unexpected exception.
C1_StatusFixedByOutcome ==
    (Done /\ GetWithUrl) =>
        /\ (res.status = 200) <=> IsSuccessShape(res.body[1])
        /\ kind \in RecognizedFailures => res.status = 400
        /\ kind = "InternalError" => res.status = 500

\* The control points of a request, in the order in which they are passed
ControlOrder ==
    <<"cors", "handler", "normalize", "fetch", "awaitFetch", "load", "extractId",
      "parse", "shortLink", "format", "catch", "respond", "done">>

Rank(p) == CHOOSE k \in 1..Len(ControlOrder) : ControlOrder[k] = p

\* C2: extractTeraBoxInfo ends with exactly one of the two result shapes, for
\* every URL and every answer of the remote host: no mix of the two, no
\* partial success record, no exception that escapes; and it terminates:
\* every step moves forward in the control order and every control point
\* before the end has a step to take.
C2_TwoShapes ==
    /\ [](/\ result # <<>> =>
               /\ IsSuccessShape(result[1]) \/ IsFailureShape(result[1])
               /\ IsSuccessShape(result[1]) <=> kind = "Success"
          /\ (pc \in {"respond", "done"} /\ kind # "none") =>
               result # <<>> /\ thrown = <<>> /\ escaped = <<>>
          /\ \E k \in 1..Len(ControlOrder) : ControlOrder[k] = pc)
    /\ [][Rank(pc') > Rank(pc)]_vars

\* C2 witness: an exception thrown inside the pipeline came back as a failure
C2_Witness ==
    /\ Done
    /\ kind = "InternalError"
    /\ IsFailureShape(result[1])
    /\ res.body = result

PipelineNotInvoked ==
    /\ trace = <<>>
    /\ gets = 0
    /\ result = <<>>
    /\ kind = "none"

HasHeader(name, value) == <<name, value>> \in res.headers

\* C3, as stated: every request whose method is not GET is answered with 405,
\* an Allow: GET header and a failure-shaped body, and never reaches the
\* pipeline.
C3_Original ==
    method # "GET" =>
        /\ PipelineNotInvoked
        /\ Done => /\ res.status = 405
                   /\ HasHeader("Allow", "GET")
                   /\ res.body # <<>>
                   /\ IsFailureShape(res.body[1])

\* C3, amended: every request whose method is neither GET nor OPTIONS is
\* answered with 405, an Allow: GET header and the method-not-allowed failure
\* body, with or without a url parameter; an OPTIONS request is answered by
\* the CORS middleware (204, no body); the pipeline runs for none of them.
C3_NonGetRejected ==
    method # "GET" =>
        /\ PipelineNotInvoked
        /\ (Done /\ ~IsPreflight(method)) =>
              /\ res.status = 405
              /\ HasHeader("Allow", "GET")
              /\ res.body = <<Failure(<<"Method not allowed">>)>>
        /\ (Done /\ IsPreflight(method)) =>
              res.status = 204 /\ res.body = <<>>

\* C3 witness: a POST that carries a valid url parameter was answered 405
C3_Witness ==
    /\ Done
    /\ method = "POST"
    /\ url = Str(GoodUrl)
    /\ res.status = 405

\* C4: a GET request whose url parameter is missing or empty is answered with
\* 400 and the missing-URL-parameter failure body, and the pipeline (hence the
\* outbound fetch) never runs for it.
C4_MissingUrl ==
    (method = "GET" /\ Falsy(url)) =>
        /\ PipelineNotInvoked
        /\ Done => /\ res.status = 400
                   /\ res.body = <<Failure(<<"Missing URL parameter">>)>>

\* C4 witness: a GET with an empty url parameter was answered
C4_Witness ==
    /\ Done
    /\ method = "GET"
    /\ url = Str(<<>>)
    /\ res.status = 400

\* The stages in the order of the pipeline
StageOrder == <<"normalize", "fetch", "extractId", "parse", "shortLink", "format">>

\* The stage at which each error kind ends the pipeline
FailingStage(k) ==
    CASE k = "InvalidUrl" -> "normalize"
      [] k = "FetchFailed" -> "fetch"
      [] k = "IdentifierNotFound" -> "extractId"
      [] k = "FileInfoNotFound" -> "parse"
      [] k = "Success" -> "format"

\* C5: the stages run in the order normalize, fetch, extract identifier, parse
\* page data, build short link, format; the first failing stage is the last
\* stage that runs; no GET is issued when normalization fails, and at most
\* one GET is issued per request.
C5_StageOrder ==
    /\ [](/\ trace = SubSeq(StageOrder, 1, Len(trace))
          /\ gets <= 1
          /\ gets = 1 <=> Len(trace) >= 2
          /\ kind = "InvalidUrl" => gets = 0
          /\ kind \in RecognizedFailures \cup {"Success"} =>
                trace[Len(trace)] = FailingStage(kind))
    /\ [][kind # "none" => trace' = trace /\ gets' = gets]_vars

\* C5 witness: a fetch failed and the request ended after two stages
C5_Witness ==
    /\ Done
    /\ kind = "FetchFailed"
    /\ trace = <<"normalize", "fetch">>
    /\ gets = 1


\* u holds a /s/ followed by a character of a token
HasShareToken(u) ==
    \E p \in 1..(Len(u) - 3) :
        SubSeq(u, p, p + 2) = SlashS /\ u[p + 3] \in TokenChars

\* tok is the whole run of token characters after the first such /s/ of u
IsShareTokenOf(tok, u) ==
    \E p \in 1..(Len(u) - 3) :
        /\ SubSeq(u, p, p + 2) = SlashS
        /\ tok # <<>>
        /\ p + 2 + Len(tok) <= Len(u)
        /\ SubSeq(u, p + 3, p + 2 + Len(tok)) = tok
        /\ \A k \in 1..Len(tok) : tok[k] \in TokenChars
        /\ p + 3 + Len(tok) <= Len(u) => u[p + 3 + Len(tok)] \notin TokenChars
        /\ \A q \in 1..(p - 1) :
              ~(SubSeq(u, q, q + 2) = SlashS /\ u[q + 3] \in TokenChars)

\* toks holds "key":<digits>
HasField(toks, key) ==
    \E p \in 1..(Len(toks) - 1) : toks[p] = key /\ IsDigits(toks[p + 1])

\* digits are the digits of the first "key":<digits> of toks
IsFirstField(digits, toks, key) ==
    \E p \in 1..(Len(toks) - 1) :
        /\ toks[p] = key
        /\ IsDigits(toks[p + 1])
        /\ digits = <<toks[p + 1]>>
        /\ \A q \in 1..(p - 1) : ~(toks[q] = key /\ IsDigits(toks[q + 1]))

\* C6: the identifier is the /s/<token> of the URL when there is one,
\* whatever the page text; otherwise the digits of the first "fs_id":<digits>
\* of the page; otherwise those of the first "shareid":<digits>; extraction
\* fails only when none of the three is there; and the short link of a
\* success is https://1024terabox.com/s/<identifier>.
C6_IdentifierPrecedence ==
    (Len(trace) >= 3 /\ page.t = "str") =>
        LET u == normalizedUrl.v
            toks == page.v
            none == /\ ~HasShareToken(u)
                    /\ ~HasField(toks, FsIdKey)
                    /\ ~HasField(toks, ShareIdKey)
        IN  /\ HasShareToken(u) => IsShareTokenOf(fileId.v, u)
            /\ (~HasShareToken(u) /\ HasField(toks, FsIdKey)) =>
                  IsFirstField(fileId.v, toks, FsIdKey)
            /\ (~HasShareToken(u) /\ ~HasField(toks, FsIdKey)
                   /\ HasField(toks, ShareIdKey)) =>
                  IsFirstField(fileId.v, toks, ShareIdKey)
            /\ none <=> kind = "IdentifierNotFound"
            /\ ~none => fileId.t = "str"
            /\ kind = "Success" =>
                  result[1].shortLink = <<"https://1024terabox.com/s/">> \o fileId.v

\* C6 witness: the URL has a share token and the page an fs_id; the token won
C6_Witness ==
    /\ Done
    /\ kind = "Success"
    /\ page.t = "str"
    /\ HasField(page.v, FsIdKey)
    /\ fileId = Str(<<"1", "A", "b", "c", "D", "e", "f", "G", "h">>)
    /\ res.body[1].shortLink =
           <<"https://1024terabox.com/s/", "1", "A", "b", "c", "D", "e", "f", "G", "h">>

\* toks holds an assignment window.yunData = ...; on one line
HasAssignment(toks) ==
    \E p \in 1..Len(toks) : \E q \in (p + 1)..Len(toks) :
        /\ toks[p] = YunMarker
        /\ toks[q] = Semicolon
        /\ \A k \in (p + 1)..(q - 1) : toks[k] \notin {Semicolon, Newline}

\* The page-data failure of a page text, "none" when it is none of the three
PageDataKind(toks) ==
    IF ~HasAssignment(toks) THEN "PageDataNotFound"
    ELSE LET parsed == JSONparse(YunDataMatch(toks).capture)
         IN  IF ~parsed.ok THEN "PageDataInvalid"
             ELSE IF /\ parsed.value.t = "object"
                     /\ \/ parsed.value.file_list.t = "undefined"
                        \/ parsed.value.file_list = ArrayOf(<<>>)
             THEN "EmptyFileList"
             ELSE "none"

PageDataKinds == {"PageDataNotFound", "PageDataInvalid", "EmptyFileList"}

\* One page text of each kind
KindPages ==
    {Html(<<>>),
     Html(<<YunMarker, "{", Semicolon>>),
     Html(WellFormed(YunData(ArrayOf(<<>>), Undefined, Undefined, Undefined)))}

\* The page-data stage ran on a page text
PageParsed == Len(trace) >= 4 /\ page.t = "str"

\* C7, as stated: the three page-data failures fail the request, and the
\* status string returned for one kind is never the one returned for another.
C7_Original ==
    (Done /\ PageParsed /\ PageDataKind(page.v) \in PageDataKinds) =>
        /\ res.status = 400
        /\ IsFailureShape(res.body[1])
        /\ \A other \in KindPages :
              PageDataKind(other) # PageDataKind(page.v) =>
                  FileInfoFailure(extractFileInfoFromPage(Str(other), 0)) # res.body

\* C7, amended: each of the three page-data failures ends the request with
\* status 400 and the same status string, "Could not extract file info"; the
\* caller cannot tell the three kinds apart.
C7_SameStatus ==
    (Done /\ PageParsed /\ PageDataKind(page.v) \in PageDataKinds) =>
        /\ res.status = 400
        /\ res.body = <<Failure(<<"Could not extract file info">>)>>
        /\ \A other \in KindPages :
              FileInfoFailure(extractFileInfoFromPage(Str(other), 0)) = res.body

\* C7 witness: an assignment whose JSON does not decode was answered
C7_Witness ==
    /\ Done
    /\ PageParsed
    /\ PageDataKind(page.v) = "PageDataInvalid"
    /\ res.status = 400

\* The host name without a leading "www."
LeadingWwwStripped(h) ==
    IF Len(h) >= 4 /\ SubSeq(h, 1, 4) = Www THEN SubSeq(h, 5, Len(h)) ELSE h

\* u parses as a URL whose host, a leading www. removed, contains an
\* allow-listed domain
RecognizedHost(u) ==
    /\ ParseURL(u).ok
    /\ \E d \in validDomains : Includes(LeadingWwwStripped(ParseURL(u).hostname), d)

\* C8: an input that does not parse as a URL, or whose host contains no
\* allow-listed domain once a leading www. is removed, ends the request with
\* the invalid-URL failure; an accepted input is passed on unchanged.
C8_Original ==
    (GetWithUrl /\ Len(trace) >= 1) =>
        /\ ~RecognizedHost(url.v) =>
              /\ kind = "InvalidUrl"
              /\ Done => res.body = <<Failure(<<"Invalid TeraBox URL">>)>>
        /\ kind # "InvalidUrl" => normalizedUrl = url

\* The first file record of the page data of a page text that has one
FirstRecord(toks) ==
    JSONparse(YunDataMatch(toks).capture).value.file_list.items[1]

\* The size presets: widths and heights
Presets ==
    {[w |-> "140", h |-> "90"], [w |-> "360", h |-> "270"],
     [w |-> "60", h |-> "60"], [w |-> "850", h |-> "580"]}

\* C9: in every success result the thumbnail map follows the category of the
\* first file record: for 1 (video) and 3 (image) exactly the four keys
\* 140x90, 360x270, 60x60, 850x580, each URL with size=c<W>_u<H> and with
\* ft=video for 1, ft=image for 3; for any other or no category the map is
\* empty, and the extraction succeeds all the same.
C9_Thumbnails ==
    (result # <<>> /\ kind = "Success") =>
        LET cat == FirstRecord(page.v).category
            thumbs == result[1].info[1].thumbnails
        IN  IF cat \in {Num("1"), Num("3")}
            THEN /\ DOMAIN thumbs = {p.w \o "x" \o p.h : p \in Presets}
                 /\ \A p \in Presets :
                       /\ Includes(thumbs[p.w \o "x" \o p.h],
                                   <<"&size=", "c" \o p.w \o "_u" \o p.h>>)
                       /\ Includes(thumbs[p.w \o "x" \o p.h],
                                   <<"&ft=", IF cat = Num("1") THEN "video"
                                             ELSE "image">>)
            ELSE DOMAIN thumbs = {}

\* C9 witness: an image (category 3) got its four thumbnails
C9_Witness ==
    /\ Done
    /\ kind = "Success"
    /\ FirstRecord(page.v).category = Num("3")
    /\ Cardinality(DOMAIN res.body[1].info[1].thumbnails) = 4

\* C10: the unit of a formatted size is one of Bytes, KB, MB, GB, TB: 0 is
\* "0 Bytes", a count b >= 1 has the unit of index floor(log1024(b)) clamped
\* to 0..4, 1024 is "1 KB" and 1073741824 is "1 GB".
C10_Original ==
    (result # <<>> /\ kind = "Success") =>
        LET lit == SizeLiteral(FirstRecord(page.v).size)
            size == result[1].info[1].size
        IN  /\ \E k \in 1..Len(sizes) : size[3] = sizes[k]
            /\ lit = "0" => size = <<"0", " ", "Bytes">>
            /\ lit # "0" => size[3] = sizes[Min(Len(DigitsOf(lit)) - 1, 4) + 1]
            /\ lit = "1024" => size = <<"1", " ", "KB">>
            /\ lit = "1073741824" => size = <<"1", " ", "GB">>

=============================================================================
